---------------------------- MODULE Spec2Model ----------------------------
(***************************************************************************)
(* A model of hsh (src/source-code/src/main.rs): the read loop of main,    *)
(* the dispatch pipeline execute_command with handle_builtin and           *)
(* check_auto_sudo, and the classifier ShellHelper::highlight.             *)
(*                                                                         *)
(* A Rust &str is modelled as the sequence of its characters, each a       *)
(* one-character string: "cd /a" is <<"c","d"," ","/","a">>.  Option<T>    *)
(* is <<>> for None and <<x>> for Some(x).                                 *)
(***************************************************************************)
EXTENDS Integers, Sequences, FiniteSets, TLC

(***************************************************************************)
(* Bounds of the model.                                                    *)
(***************************************************************************)
\* lines read at the prompt in one session
MaxReads == 3
\* nesting depth of execute_command (source inside source)
MaxDepth == 3

(***************************************************************************)
(* String primitives of the Rust standard library, as the code uses them.  *)
(***************************************************************************)
None == << >>

Some(x) == <<x>>

\* char::is_whitespace on the characters the session's lines are made of
is_whitespace(c) == c \in {" ", "\t", "\n"}

starts_with(s, p) == Len(s) >= Len(p) /\ SubSeq(s, 1, Len(p)) = p

ends_with(s, p) == Len(s) >= Len(p) /\ SubSeq(s, Len(s) - Len(p) + 1, Len(s)) = p

\* &s[n..] with a 0-based byte offset n
slice_from(s, n) == SubSeq(s, n + 1, Len(s))

RECURSIVE trim_start(_)
trim_start(s) ==
    IF s # << >> /\ is_whitespace(Head(s)) THEN trim_start(Tail(s)) ELSE s

RECURSIVE trim_end(_)
trim_end(s) ==
    IF s # << >> /\ is_whitespace(s[Len(s)])
    THEN trim_end(SubSeq(s, 1, Len(s) - 1))
    ELSE s

\* str::trim
trim(s) == trim_end(trim_start(s))

\* str::find(char): Some(0-based offset of the first occurrence) or None
find(s, c) ==
    IF \E i \in 1..Len(s) : s[i] = c
    THEN Some((CHOOSE i \in 1..Len(s) : s[i] = c /\ \A j \in 1..(i - 1) : s[j] # c) - 1)
    ELSE None

\* [String]::join(" ")
RECURSIVE join(_)
join(parts) ==
    IF parts = << >> THEN << >>
    ELSE IF Len(parts) = 1 THEN parts[1]
    ELSE parts[1] \o <<" ">> \o join(Tail(parts))

(***************************************************************************)
(* shlex::split on the characters the model's lines use: whitespace        *)
(* separates words, '...' and "..." quote, and an unterminated quote makes *)
(* the split fail (None).  The model's lines hold no backslash and no #.   *)
(* The scan keeps the words finished so far, the word being read, whether  *)
(* a word is being read, and the open quote ("" when none).                *)
(***************************************************************************)
RECURSIVE shlex_scan(_, _, _, _, _)
shlex_scan(s, words, cur, inword, quote) ==
    IF s = << >>
    THEN IF quote # "" THEN None
         ELSE Some(IF inword THEN Append(words, cur) ELSE words)
    ELSE LET c == Head(s) IN
         IF quote # ""
         THEN IF c = quote
              THEN shlex_scan(Tail(s), words, cur, TRUE, "")
              ELSE shlex_scan(Tail(s), words, Append(cur, c), TRUE, quote)
         ELSE IF is_whitespace(c)
              THEN shlex_scan(Tail(s), IF inword THEN Append(words, cur) ELSE words,
                              << >>, FALSE, "")
         ELSE IF c \in {"\"", "'"}
              THEN shlex_scan(Tail(s), words, cur, TRUE, c)
         ELSE shlex_scan(Tail(s), words, Append(cur, c), TRUE, "")

shlex_split(s) == shlex_scan(s, << >>, << >>, FALSE, "")


(***************************************************************************)
(* The world the session runs in: literal texts of the code, the           *)
(* directories and files of the file system, and the alias table that      *)
(* get_aliases loads once at start.                                        *)
(***************************************************************************)
s_cd == <<"c", "d">>

s_source == <<"s", "o", "u", "r", "c", "e", " ">>

s_dot == <<".", " ">>

s_export == <<"e", "x", "p", "o", "r", "t", " ">>

s_exit == <<"e", "x", "i", "t">>

s_history == <<"h", "i", "s", "t", "o", "r", "y">>

s_hsh_help == <<"h", "s", "h", "-", "h", "e", "l", "p">>

s_sh == <<".", "s", "h">>

s_hl == <<".", "h", "l">>

s_hl_run == <<"h", "l", " ", "r", "u", "n", " ">>

s_sudo == <<"s", "u", "d", "o", " ">>

s_HOME == <<"H", "O", "M", "E">>

\* directories
d_root == <<"/">>

d_home == <<"/", "h">>

d_a == <<"/", "a">>

d_b == <<"/", "b">>

\* a directory that never exists
d_x == <<"/", "x">>

InitialDirs == {d_root, d_home, d_a, d_b}

\* commands of the session
l_ls == <<"l", "s">>

l_ll == <<"l", "l">>

l_ls_a == <<"l", "s", " ", "-", "a">>

l_cd == s_cd

l_cd_a == s_cd \o <<" ">> \o d_a

l_cd_b == s_cd \o <<" ">> \o d_b

l_cd_x == s_cd \o <<" ">> \o d_x

l_cd_minus == s_cd \o <<" ", "-">>

l_cd_tilde == s_cd \o <<" ", "~">>

\* a delegated command whose child removes the directory /b
l_rmdir_b == <<"r", "m", "d", "i", "r", " ">> \o d_b

l_empty == << >>

l_blank == <<" ">>

l_sp_ls_sp == <<" ", " ">> \o l_ls \o <<" ", " ">>

\* script files: path -> lines (read_to_string(..).lines())
f_3 == <<"f", "3">>

f_e == <<"f", "e">>

f_n == <<"f", "n">>

f_s == <<"f", "s">>

f_q == <<"f", "q">>

\* a path no file has
f_x == <<"f", "x">>

f_o == <<"f", "o">>

f_t == <<"f", "t">>

f_h == <<"f", "h">>

l_c1 == <<"c", "1">>

l_c2 == <<"c", "2">>

l_c3 == <<"c", "3">>

src(f) == s_source \o f

dot(f) == s_dot \o f

Files ==
    (f_3 :> <<l_c1, l_blank, <<"!">> \o l_c2, l_cd_a, <<" ">> \o l_c3>>)
    @@ (f_e :> <<l_empty, <<"!", "x">>, l_blank>>)
    @@ (f_n :> <<l_c1, src(f_x), l_c2>>)
    @@ (f_s :> <<l_c1, src(f_s)>>)
    @@ (f_q :> <<l_c1, s_exit, l_c2>>)
    @@ (f_o :> <<src(f_n), l_c3>>)
    @@ (f_t :> <<dot(f_x), src(f_t)>>)
    @@ (f_h :> <<l_cd_a, s_history>>)

\* the [aliases] section of ~/.hshrc: ll names another key, ls names itself
aliases == (l_ll :> l_ls) @@ (l_ls :> l_ls_a)

l_export_ab == s_export \o <<"A", "=", "b">>

l_export_a == s_export \o <<"A">>

l_export_sp == s_export \o <<"A", " ", "=", " ", "c", " ">>

\* export with an empty name
l_export_eq == s_export \o <<"=", "b">>

l_export_home == s_export \o s_HOME \o <<"=">> \o d_a

p_etc == <<"/", "e", "t", "c", "/">>

p_usr_bin == <<"/", "u", "s", "r", "/", "b", "i", "n", "/">>

l_vi_etc == <<"v", "i", " ">> \o p_etc \o <<"x">>

l_vi_a == <<"v", "i", " ">> \o d_a

\* vi "/etc/a b": one quoted argument with a space in it
l_vi_q == <<"v", "i", " ", "\"">> \o p_etc \o <<"a", " ", "b", "\"">>

\* vi "/etc/x: the quote is not closed
l_vi_open == <<"v", "i", " ", "\"">> \o p_etc \o <<"x">>

l_nano_usr == <<"n", "a", "n", "o", " ">> \o p_usr_bin \o <<"x">>

f_xsh == <<"x">> \o s_sh

l_xsh == f_xsh

l_bash_xsh == <<"b", "a", "s", "h", " ">> \o f_xsh

l_xhl == <<"x">> \o s_hl

l_cdrecord == <<"c", "d", "r", "e", "c", "o", "r", "d", " ", "x">>

(***************************************************************************)
(* The lines a session submits are drawn from one of these groups.         *)
(***************************************************************************)
Scenarios == {"dirs", "hist", "source", "env", "misc", "nest", "sudo"}

Lines(s) ==
    CASE s = "dirs" -> {l_cd, l_cd_a, l_cd_b, l_cd_x, l_cd_minus, l_cd_tilde, l_rmdir_b}
      [] s = "hist" -> {l_empty, l_blank, l_sp_ls_sp, l_ls, l_ll, s_history, s_exit}
      [] s = "source" -> {src(f_3), dot(f_3), src(f_e), src(f_x), src(f_n), src(f_s),
                          src(f_q), l_c1}
      [] s = "env" -> {l_export_ab, l_export_a, l_export_sp, l_export_eq, l_export_home,
                       l_cd, l_c1}
      [] s = "misc" -> {l_vi_etc, l_vi_a, l_xsh, l_bash_xsh, l_xhl, l_cdrecord, s_hsh_help}
      [] s = "nest" -> {src(f_o), src(f_n), src(f_t), src(f_h), dot(f_x), l_c1}
      [] s = "sudo" -> {l_vi_q, l_vi_open, l_nano_usr, l_ll}

(***************************************************************************)
(* State.                                                                  *)
(***************************************************************************)
VARIABLES
    pc,             \* where main is: "prompt" (in readline), "dispatch", "done"
    ended,          \* how the process ended: "no" while it runs
    uid,            \* getuid() of the process
    cwd,            \* the process's working directory
    dirs,           \* the directories that exist
    exec_bit,       \* file path -> whether the file's mode has a bit of 0o111
    environ,        \* the process environment: name -> value
    prev_dir,       \* main's prev_dir: Option<PathBuf>
    last_exit_code, \* main's last_exit_code
    history,        \* rl.history(): the editor's entries, oldest first
    history_file,   \* the lines of ~/.hsh-history
    stack,          \* the active calls of execute_command, outermost first
    scn,            \* the group the session's lines are drawn from
    submitted,      \* the lines readline has returned, in order
    snaps,          \* the working directory and prev_dir when each was returned, and
                    \* last_exit_code when a blank one was
    printed,        \* what the dispatch of the last line has printed, and the answers
                    \* typed at its questions
    spawned,        \* the children the dispatch of the last line has run
    calls,          \* the lines the last dispatch passed to execute_command
    rets,           \* the statuses those calls returned
    outcome,        \* how the last finished dispatch ended
    hl_pc,          \* where highlight is: "idle", "scan", "done", "panic"
    hl_line,        \* highlight's line: the bytes of a &str
    hl_i,           \* highlight's i: a 0-based byte offset into line
    hl_cmd,         \* highlight's is_command_position
    hl_out          \* the spans pushed onto highlighted so far

vars == <<pc, ended, uid, cwd, dirs, exec_bit, environ, prev_dir, last_exit_code, history,
          history_file, stack, scn, submitted, snaps, printed, spawned, calls, rets,
          outcome, hl_pc, hl_line, hl_i, hl_cmd, hl_out>>

hl == <<hl_pc, hl_line, hl_i, hl_cmd, hl_out>>

world == <<uid, dirs, exec_bit, scn, hl>>

session == <<cwd, environ, prev_dir, history>>

ghost == <<submitted, snaps, printed, spawned, calls>>

\* Config::builder() leaves max_history_size at rustyline's default
HistoryMaxLen == 100

LoadedHistories == {<< >>, <<l_ls>>}

SessionInit ==
    /\ pc = "prompt"
    /\ ended = "no"
    /\ scn \in Scenarios
    /\ uid \in (IF scn \in {"misc", "sudo"} THEN {0, 1000} ELSE {1000})
    /\ cwd \in (IF scn = "dirs" THEN {d_home, d_a, d_b} ELSE {d_home})
    /\ dirs = InitialDirs
    /\ exec_bit = (f_xsh :> FALSE)
    /\ environ = (s_HOME :> d_home)
    /\ prev_dir = None
    /\ last_exit_code = 0
    /\ history \in (IF scn = "hist" THEN LoadedHistories ELSE {<< >>})
    /\ history_file = history
    /\ stack = << >>
    /\ submitted = << >>
    /\ snaps = << >>
    /\ printed = << >>
    /\ spawned = << >>
    /\ calls = << >>
    /\ rets = << >>
    /\ outcome = [kind |-> "none", code |-> 0]

\* a session, with no line being highlighted
Init ==
    /\ SessionInit
    /\ hl_pc = "idle"
    /\ hl_line = << >>
    /\ hl_i = 0
    /\ hl_cmd = TRUE
    /\ hl_out = << >>

(***************************************************************************)
(* Helpers of the dispatch pipeline.                                       *)
(***************************************************************************)
\* env::var(name): Option
env_var(name) == IF name \in DOMAIN environ THEN Some(environ[name]) ELSE None

expand_tilde(s) ==
    IF starts_with(s, <<"~">>)
    THEN IF env_var(s_HOME) # None THEN env_var(s_HOME)[1] \o slice_from(s, 1) ELSE s
    ELSE s

is_root == uid = 0

\* env::current_dir().unwrap_or(PathBuf::from("/")): getcwd fails in a removed directory
current_dir == IF cwd \in dirs THEN cwd ELSE d_root

\* the directory a path names for the process
resolve(path) ==
    IF starts_with(path, <<"/">>) THEN path
    ELSE IF cwd = d_root THEN cwd \o path
    ELSE cwd \o <<"/">> \o path

\* env::set_current_dir(path).is_ok()
can_enter(path) ==
    /\ path # << >>
    /\ resolve(path) \in dirs
    /\ (starts_with(path, <<"/">>) \/ cwd \in dirs)

\* History::add of rustyline under history_ignore_space(true) and the default
\* HistoryDuplicates::IgnoreConsecutive and max_history_size
\* a history that records lines with leading whitespace
history_ignore_keeps_space(h, line) ==
    \/ line = << >>
    \/ (h # << >> /\ h[Len(h)] = line)

history_ignore(h, line) ==
    \/ line = << >>
    \/ is_whitespace(Head(line))
    \/ (h # << >> /\ h[Len(h)] = line)

add_history_entry(h, line) ==
    IF history_ignore(h, line) THEN h
    ELSE Append(IF Len(h) = HistoryMaxLen THEN Tail(h) ELSE h, line)

Frame(input) ==
    [input |-> input, trimmed |-> << >>, stage |-> "alias", lines |-> << >>, last_code |-> 0]

Top == stack[Len(stack)]

AtStage(st) == pc = "dispatch" /\ stack # << >> /\ Top.stage = st

SetTop(f) == stack' = [stack EXCEPT ![Len(stack)] = f]

\* execute_command returns res, <<"Ok", code>> or <<"Err">>, to its caller: the loop over
\* a sourced file's lines (which passes an Err on with ?), or main, which keeps
\* unwrap_or(1) of it in last_exit_code
Return(res, kind) ==
    IF res[1] = "Err" \/ Len(stack) = 1
    THEN /\ stack' = << >>
         /\ last_exit_code' = (IF res[1] = "Ok" THEN res[2] ELSE 1)
         /\ outcome' = [kind |-> (IF res[1] = "Ok" THEN kind ELSE "ioerr"),
                        code |-> (IF res[1] = "Ok" THEN res[2] ELSE 1)]
         /\ pc' = "prompt"
         /\ rets' = rets
    ELSE /\ stack' = [SubSeq(stack, 1, Len(stack) - 1)
                         EXCEPT ![Len(stack) - 1].last_code = res[2]]
         /\ rets' = Append(rets, [depth |-> Len(stack) - 1, code |-> res[2]])
         /\ UNCHANGED <<last_exit_code, outcome, pc>>

(***************************************************************************)
(* main: one turn of the read loop (lines 531-552) and the end of the      *)
(* session (line 554).                                                     *)
(***************************************************************************)
\* a loop that goes back to the prompt on a blank line
MainReadSkipBlank(line) ==
    /\ pc = "prompt"
    /\ Len(submitted) < MaxReads
    /\ history' = (IF trim(line) # << >> THEN add_history_entry(history, line) ELSE history)
    /\ stack' = (IF trim(line) # << >> THEN <<Frame(line)>> ELSE << >>)
    /\ pc' = (IF trim(line) # << >> THEN "dispatch" ELSE "prompt")
    /\ submitted' = Append(submitted, line)
    /\ snaps' = Append(snaps, [cwd |-> current_dir, prev |-> prev_dir,
                                code |-> IF trim(line) = << >> THEN last_exit_code ELSE 0])
    /\ printed' = << >>
    /\ spawned' = << >>
    /\ calls' = << >>
    /\ rets' = << >>
    /\ UNCHANGED <<ended, world, cwd, environ, prev_dir, last_exit_code, history_file, outcome>>

\* lines 533-538: a line is read, recorded and handed to execute_command
MainRead(line) ==
    /\ pc = "prompt"
    /\ Len(submitted) < MaxReads
    /\ history' = (IF trim(line) # << >> THEN add_history_entry(history, line) ELSE history)
    /\ stack' = <<Frame(line)>>
    /\ pc' = "dispatch"
    /\ submitted' = Append(submitted, line)
    /\ snaps' = Append(snaps, [cwd |-> current_dir, prev |-> prev_dir,
                                code |-> IF trim(line) = << >> THEN last_exit_code ELSE 0])
    /\ printed' = << >>
    /\ spawned' = << >>
    /\ calls' = << >>
    /\ rets' = << >>
    /\ UNCHANGED <<ended, world, cwd, environ, prev_dir, last_exit_code, history_file, outcome>>

\* break, then rl.save_history(&history_path)
MainBreak(why) ==
    /\ pc = "prompt"
    /\ pc' = "done"
    /\ ended' = why
    /\ history_file' = history
    /\ UNCHANGED <<world, session, last_exit_code, stack, ghost, rets, outcome>>

MainInterrupted == MainBreak("Interrupted")

MainEof == MainBreak("Eof")

MainReadError == MainBreak("Error")

(***************************************************************************)
(* execute_command, stage by stage.  Each action is one stage of the call  *)
(* on top of the stack.                                                    *)
(***************************************************************************)
\* what a stage that only rewrites the line leaves alone
NoEffect ==
    UNCHANGED <<pc, ended, world, session, last_exit_code, history_file, ghost, rets, outcome>>

\* one substitution of the leading token
alias_step(line) ==
    LET split == shlex_split(line)
        parts == IF split = None THEN << >> ELSE split[1]
    IN  IF parts # << >> /\ parts[1] \in DOMAIN aliases
        THEN aliases[parts[1]] \o <<" ">> \o join(Tail(parts))
        ELSE line

\* an expansion that looks the replacement's leading token up again
expand_alias_again(input) == alias_step(alias_step(trim(input)))

\* lines 416-423: the line after alias expansion
expand_alias(input) ==
    LET trimmed == trim(input)
        split == shlex_split(trimmed)
        parts == IF split = None THEN << >> ELSE split[1]
    IN  IF parts # << >> /\ parts[1] \in DOMAIN aliases
        THEN aliases[parts[1]] \o <<" ">> \o join(Tail(parts))
        ELSE trimmed

StageAlias ==
    /\ AtStage("alias")
    /\ SetTop([Top EXCEPT !.trimmed = expand_alias(Top.input), !.stage = "source"])
    /\ NoEffect

\* line 425
is_source(t) == starts_with(t, s_source) \/ starts_with(t, s_dot)

\* lines 426-427
source_path(t) ==
    expand_tilde(trim(slice_from(t, IF starts_with(t, s_source) THEN 7 ELSE 2)))

\* read_to_string(&file_path) succeeds
SourceOpen ==
    /\ AtStage("source")
    /\ is_source(Top.trimmed)
    /\ source_path(Top.trimmed) \in DOMAIN Files
    /\ SetTop([Top EXCEPT !.stage = "loop", !.lines = Files[source_path(Top.trimmed)],
                          !.last_code = 0])
    /\ NoEffect

\* a source that takes an unreadable file for an empty one
SourceFailAsEmpty ==
    /\ AtStage("source")
    /\ is_source(Top.trimmed)
    /\ source_path(Top.trimmed) \notin DOMAIN Files
    /\ Return(<<"Ok", 0>>, "source")
    /\ UNCHANGED <<ended, world, session, history_file, ghost>>

\* read_to_string(&file_path)? fails
SourceFail ==
    /\ AtStage("source")
    /\ is_source(Top.trimmed)
    /\ source_path(Top.trimmed) \notin DOMAIN Files
    /\ Return(<<"Err">>, "source")
    /\ UNCHANGED <<ended, world, session, history_file, ghost>>

NotSource ==
    /\ AtStage("source")
    /\ ~is_source(Top.trimmed)
    /\ SetTop([Top EXCEPT !.stage = "builtin"])
    /\ NoEffect

\* a loop that dispatches !-prefixed lines too
eligible_with_bang(line) == trim(line) # << >>

\* a loop that skips a line some active call is already dispatching
eligible_unless_active(line) ==
    /\ trim(line) # << >>
    /\ ~starts_with(trim(line), <<"!">>)
    /\ \A k \in 1..Len(stack) : trim(stack[k].input) # trim(line)

\* line 432
eligible(line) == trim(line) # << >> /\ ~starts_with(trim(line), <<"!">>)

\* a loop that records the lines of the file in the history
SourceDispatchRecorded ==
    /\ AtStage("loop")
    /\ Top.lines # << >>
    /\ eligible(Head(Top.lines))
    /\ Len(stack) < MaxDepth
    /\ stack' = Append([stack EXCEPT ![Len(stack)].lines = Tail(Top.lines)],
                       Frame(Head(Top.lines)))
    /\ calls' = Append(calls, [depth |-> Len(stack), line |-> Head(Top.lines)])
    /\ history' = add_history_entry(history, Head(Top.lines))
    /\ UNCHANGED <<pc, ended, world, cwd, environ, prev_dir, last_exit_code, history_file,
                   submitted, snaps, printed, spawned, rets, outcome>>

\* line 433: the next eligible line of the file is dispatched
SourceDispatch ==
    /\ AtStage("loop")
    /\ Top.lines # << >>
    /\ eligible(Head(Top.lines))
    /\ Len(stack) < MaxDepth
    /\ stack' = Append([stack EXCEPT ![Len(stack)].lines = Tail(Top.lines)],
                       Frame(Head(Top.lines)))
    /\ calls' = Append(calls, [depth |-> Len(stack), line |-> Head(Top.lines)])
    /\ UNCHANGED <<pc, ended, world, session, last_exit_code, history_file, submitted,
                   snaps, printed, spawned, rets, outcome>>

SourceSkip ==
    /\ AtStage("loop")
    /\ Top.lines # << >>
    /\ ~eligible(Head(Top.lines))
    /\ SetTop([Top EXCEPT !.lines = Tail(Top.lines)])
    /\ NoEffect

\* line 436
SourceDone ==
    /\ AtStage("loop")
    /\ Top.lines = << >>
    /\ Return(<<"Ok", Top.last_code>>, "source")
    /\ UNCHANGED <<ended, world, session, history_file, ghost>>

(***************************************************************************)
(* handle_builtin (lines 331-384), called at line 438.                     *)
(***************************************************************************)
m_no_prev == <<"No previous directory">>

m_cd_failed(dir_str) == <<"cd: no such file or directory: ", dir_str>>

m_help == <<"hsh - HackerOS Shell">>

RECURSIVE rev(_)
rev(q) == IF q = << >> THEN << >> ELSE Append(rev(Tail(q)), Head(q))

m_history(h) == <<"history", rev(h)>>

\* line 333
is_cd(cmd) == starts_with(trim(cmd), s_cd)

\* line 334
cd_dir_str(cmd) == trim(slice_from(trim(cmd), 2))

\* lines 335-346, when a target is found
cd_target(dir_str) ==
    IF dir_str = << >>
    THEN (IF env_var(s_HOME) # None THEN env_var(s_HOME)[1] ELSE d_root)
    ELSE IF dir_str = <<"-">> THEN prev_dir[1]
    ELSE expand_tilde(dir_str)

\* line 338: prev_dir.take() leaves None behind
cd_taken(dir_str) == IF dir_str = <<"-">> THEN None ELSE prev_dir

\* a cd - that consumes prev_dir for good
cd_new_prev_consumed(dir_str) == IF dir_str = <<"-">> THEN None ELSE Some(current_dir)

\* line 349: prev_dir after the directory was changed
cd_new_prev(dir_str) == Some(current_dir)

\* lines 337-343: cd - with no previous directory
BuiltinCdNoPrev ==
    /\ AtStage("builtin")
    /\ is_cd(Top.trimmed)
    /\ cd_dir_str(Top.trimmed) = <<"-">>
    /\ prev_dir = None
    /\ printed' = Append(printed, m_no_prev)
    /\ Return(<<"Ok", 0>>, "builtin")
    /\ UNCHANGED <<ended, world, session, history_file, submitted, snaps, spawned, calls>>

\* lines 333-353 otherwise
BuiltinCd ==
    /\ AtStage("builtin")
    /\ is_cd(Top.trimmed)
    /\ LET dir_str == cd_dir_str(Top.trimmed) IN
       /\ ~(dir_str = <<"-">> /\ prev_dir = None)
       /\ IF can_enter(cd_target(dir_str))
          THEN /\ cwd' = resolve(cd_target(dir_str))
               /\ prev_dir' = cd_new_prev(dir_str)
               /\ printed' = printed
          ELSE /\ cwd' = cwd
               /\ prev_dir' = cd_taken(dir_str)
               /\ printed' = Append(printed, m_cd_failed(dir_str))
    /\ Return(<<"Ok", 0>>, "builtin")
    /\ UNCHANGED <<ended, world, environ, history, history_file, submitted, snaps,
                   spawned, calls>>

\* line 356: std::process::exit(0); nothing after it runs
BuiltinExit ==
    /\ AtStage("builtin")
    /\ ~is_cd(Top.trimmed)
    /\ trim(Top.trimmed) = s_exit
    /\ pc' = "done"
    /\ ended' = "exit"
    /\ stack' = << >>
    /\ UNCHANGED <<world, session, last_exit_code, history_file, ghost, rets, outcome>>

\* lines 357-362
BuiltinHistory ==
    /\ AtStage("builtin")
    /\ ~is_cd(Top.trimmed)
    /\ trim(Top.trimmed) = s_history
    /\ printed' = Append(printed, m_history(history))
    /\ Return(<<"Ok", 0>>, "builtin")
    /\ UNCHANGED <<ended, world, session, history_file, submitted, snaps, spawned, calls>>

\* lines 363-380
BuiltinHelp ==
    /\ AtStage("builtin")
    /\ ~is_cd(Top.trimmed)
    /\ trim(Top.trimmed) = s_hsh_help
    /\ printed' = Append(printed, m_help)
    /\ Return(<<"Ok", 0>>, "builtin")
    /\ UNCHANGED <<ended, world, session, history_file, submitted, snaps, spawned, calls>>

\* a pipeline without the escalation check
NotBuiltinToExport ==
    /\ AtStage("builtin")
    /\ ~is_cd(Top.trimmed)
    /\ trim(Top.trimmed) \notin {s_exit, s_history, s_hsh_help}
    /\ SetTop([Top EXCEPT !.stage = "export"])
    /\ NoEffect

\* line 381: handle_builtin returns false
NotBuiltin ==
    /\ AtStage("builtin")
    /\ ~is_cd(Top.trimmed)
    /\ trim(Top.trimmed) \notin {s_exit, s_history, s_hsh_help}
    /\ SetTop([Top EXCEPT !.stage = "sudo"])
    /\ NoEffect

(***************************************************************************)
(* check_auto_sudo (lines 388-409), called at line 441.                    *)
(***************************************************************************)
Editors == {<<"v", "i">>, <<"v", "i", "m">>, <<"n", "a", "n", "o">>}

m_sudo == <<"This file requires root privileges. Use sudo? [y/n] ">>

\* what the user may type at the question, as read_line returns it
Answers == {<<"y", "\n">>, <<"Y", "\n">>, <<"n", "\n">>, <<"y", "e", "s", "\n">>, << >>}

to_lowercase(s) == [i \in 1..Len(s) |-> IF s[i] = "Y" THEN "y" ELSE s[i]]

\* lines 390-397: the question is asked
sudo_asks(input) ==
    LET split == shlex_split(trim(input)) IN
    /\ split # None
    /\ Len(split[1]) > 1
    /\ split[1][1] \in Editors
    /\ (starts_with(split[1][2], p_etc) \/ starts_with(split[1][2], p_usr_bin))
    /\ ~is_root

\* lines 402-404
sudo_line(input, answer) ==
    IF to_lowercase(trim(answer)) = <<"y">>
    THEN s_sudo \o join(shlex_split(trim(input))[1])
    ELSE trim(input)

\* lines 398-404: the question is printed and the answer typed after it
SudoAsk(answer) ==
    /\ AtStage("sudo")
    /\ sudo_asks(Top.trimmed)
    /\ SetTop([Top EXCEPT !.trimmed = sudo_line(Top.trimmed, answer), !.stage = "export"])
    /\ printed' = printed \o <<m_sudo, answer>>
    /\ UNCHANGED <<pc, ended, world, session, last_exit_code, history_file, submitted,
                   snaps, spawned, calls, rets, outcome>>

\* every other path through check_auto_sudo returns input.trim()
SudoPass ==
    /\ AtStage("sudo")
    /\ ~sudo_asks(Top.trimmed)
    /\ SetTop([Top EXCEPT !.trimmed = trim(Top.trimmed), !.stage = "export"])
    /\ NoEffect

(***************************************************************************)
(* export (lines 443-451).                                                 *)
(***************************************************************************)
\* line 444
export_str(t) == trim(slice_from(t, 7))

\* line 445
is_export(t) == starts_with(t, s_export) /\ find(export_str(t), "=") # None

\* line 446
export_name(t) == trim(SubSeq(export_str(t), 1, find(export_str(t), "=")[1]))

\* line 447
export_value(t) == trim(slice_from(export_str(t), find(export_str(t), "=")[1] + 1))

\* env::set_var panics on a key that is empty (setenv fails with EINVAL)
set_var_panics(name) == name = << >>

set_var(name, value) == [n \in DOMAIN environ \cup {name} |-> IF n = name THEN value ELSE environ[n]]

ExportSet ==
    /\ AtStage("export")
    /\ is_export(Top.trimmed)
    /\ ~set_var_panics(export_name(Top.trimmed))
    /\ environ' = set_var(export_name(Top.trimmed), export_value(Top.trimmed))
    /\ Return(<<"Ok", 0>>, "export")
    /\ UNCHANGED <<ended, world, cwd, prev_dir, history, history_file, ghost>>

\* the panic of env::set_var unwinds main: the process ends
ExportPanic ==
    /\ AtStage("export")
    /\ is_export(Top.trimmed)
    /\ set_var_panics(export_name(Top.trimmed))
    /\ pc' = "done"
    /\ ended' = "panic"
    /\ stack' = << >>
    /\ UNCHANGED <<world, session, last_exit_code, history_file, ghost, rets, outcome>>

ExportPass ==
    /\ AtStage("export")
    /\ ~is_export(Top.trimmed)
    /\ SetTop([Top EXCEPT !.stage = "ext"])
    /\ NoEffect

(***************************************************************************)
(* Extension rewriting (lines 452-456) with ensure_executable (319-330).   *)
(***************************************************************************)
\* the mode bits after ensure_executable(file_path)
ensure_executable(file_path) ==
    IF file_path \in DOMAIN exec_bit /\ ~exec_bit[file_path]
    THEN [exec_bit EXCEPT ![file_path] = TRUE]
    ELSE exec_bit

ExtSh ==
    /\ AtStage("ext")
    /\ ends_with(Top.trimmed, s_sh)
    /\ exec_bit' = ensure_executable(Top.trimmed)
    /\ SetTop([Top EXCEPT !.stage = "exec"])
    /\ UNCHANGED <<pc, ended, uid, dirs, scn, hl, session, last_exit_code, history_file,
                   ghost, rets, outcome>>

ExtHl ==
    /\ AtStage("ext")
    /\ ~ends_with(Top.trimmed, s_sh)
    /\ ends_with(Top.trimmed, s_hl)
    /\ SetTop([Top EXCEPT !.trimmed = s_hl_run \o Top.trimmed, !.stage = "exec"])
    /\ NoEffect

ExtPass ==
    /\ AtStage("ext")
    /\ ~ends_with(Top.trimmed, s_sh)
    /\ ~ends_with(Top.trimmed, s_hl)
    /\ SetTop([Top EXCEPT !.stage = "exec"])
    /\ NoEffect

(***************************************************************************)
(* Delegated execution (lines 458-464): sh -c <line>.                      *)
(***************************************************************************)
\* status.code() of the child: Some(code), or None when a signal ended it.
\* sh -c with an empty command exits 0; any other command may end either way.
ChildStatuses(cmd) == IF trim(cmd) = << >> THEN {Some(0)} ELSE {Some(0), Some(2), None}

\* the directories after the child ran: rmdir /b removes /b when it succeeds
ChildDirs(cmd, status) ==
    IF cmd = l_rmdir_b /\ status = Some(0) THEN dirs \ {d_b} ELSE dirs

\* an indeterminate status taken for success
exit_code_or_zero(status) == IF status = None THEN 0 ELSE status[1]

\* line 464
exit_code(status) == IF status = None THEN 1 ELSE status[1]

\* spawn()? fails
ExecSpawnFail ==
    /\ AtStage("exec")
    /\ Return(<<"Err">>, "exec")
    /\ UNCHANGED <<ended, world, session, history_file, ghost>>

ExecRun(status) ==
    /\ AtStage("exec")
    /\ status \in ChildStatuses(Top.trimmed)
    /\ spawned' = Append(spawned, [cmd |-> Top.trimmed, status |-> status])
    /\ dirs' = ChildDirs(Top.trimmed, status)
    /\ Return(<<"Ok", exit_code(status)>>, "exec")
    /\ UNCHANGED <<ended, uid, exec_bit, scn, hl, session, history_file, submitted, snaps,
                   printed, calls>>

(***************************************************************************)
(* The session.                                                            *)
(***************************************************************************)
Next ==
    \/ \E line \in Lines(scn) : MainRead(line)
    \/ MainInterrupted
    \/ MainEof
    \/ MainReadError
    \/ StageAlias
    \/ SourceOpen
    \/ SourceFail
    \/ NotSource
    \/ SourceDispatch
    \/ SourceSkip
    \/ SourceDone
    \/ BuiltinCdNoPrev
    \/ BuiltinCd
    \/ BuiltinExit
    \/ BuiltinHistory
    \/ BuiltinHelp
    \/ NotBuiltin
    \/ \E answer \in Answers : SudoAsk(answer)
    \/ SudoPass
    \/ ExportSet
    \/ ExportPanic
    \/ ExportPass
    \/ ExtSh
    \/ ExtHl
    \/ ExtPass
    \/ ExecSpawnFail
    \/ \E status \in {Some(0), Some(2), None} : ExecRun(status)

Spec == Init /\ [][Next]_vars

(***************************************************************************)
(* ShellHelper::highlight (lines 115-231).  The line is a sequence of      *)
(* bytes: an ASCII character is its own byte, and "xC3" "xA0" are the two  *)
(* bytes of the UTF-8 character U+00E0.  The code reads                    *)
(* line.as_bytes()[i] as char, which is the character U+00xx of the byte   *)
(* xx, and slices the line with &line[start..i], which panics when start   *)
(* or i is not a character boundary.                                       *)
(***************************************************************************)
\* longest line of the enumerated inputs
MaxLineLen == 3

HlBytes == {"l", "-", " ", "\"", "'", "$", "&", "|", ";", ">", "<", "xC3", "xA0"}

\* a str is valid UTF-8: xC3 starts a character that xA0 completes
Utf8Valid(b) ==
    \A k \in 1..Len(b) :
        /\ (b[k] = "xC3" => k < Len(b) /\ b[k + 1] = "xA0")
        /\ (b[k] = "xA0" => k > 1 /\ b[k - 1] = "xC3")

dangerous_patterns ==
    { <<"r", "m", " ", "-", "r", "f", " ", "/">>,
      <<"r", "m", " ", "-", "r", "f", " ", "/", "*">>,
      <<"d", "d", " ", "i", "f", "=", "/", "d", "e", "v", "/", "z", "e", "r", "o", " ",
        "o", "f", "=", "/", "d", "e", "v", "/", "s", "d", "a">>,
      <<"m", "k", "f", "s", " ", "/", "d", "e", "v", "/", "s", "d", "a">> }

\* longer lines, among them lines with a dangerous pattern
HlExamples ==
    dangerous_patterns \cup
    { <<"l", "s", ";", " ", "r", "m", " ", "-", "r", "f", " ", "/", "t", "m", "p">>,
      <<"\"", "r", "m", " ", "-", "r", "f", " ", "/">>,
      <<"xC3", "xA0", "$", "r", "m", " ", "-", "r", "f", " ", "/", "|">>,
      <<"l", " ", "\"", "a", "\"", " ", "-", "l">>,
      <<"l", " ", "&", "&", " ", "l", "l", " ", "|", "|", " ", "-", "l">>,
      <<"$", "l", " ", "l", " ", "'", "xC3", "xA0", "'">>,
      <<"l", " ", "l", "xC3", "xA0">> }

HlLines ==
    {b \in UNION {[1..n -> HlBytes] : n \in 0..MaxLineLen} : Utf8Valid(b)} \cup HlExamples

\* str::contains
contains(s, p) == \E k \in 1..(Len(s) - Len(p) + 1) : SubSeq(s, k, k + Len(p) - 1) = p

\* a test that takes only a line that is a pattern for dangerous
is_dangerous_whole_line(line) == line \in dangerous_patterns

\* line 117
is_dangerous(line) == \E p \in dangerous_patterns : contains(line, p)

\* line.as_bytes()[i]
byte_at(i) == hl_line[i + 1]

\* (byte as char).is_whitespace(): U+00A0 is white space
byte_is_whitespace(b) == b \in {" ", "\t", "\n", "xA0"}

\* (byte as char).is_alphanumeric(): U+00C3 is a letter, U+00A0 is not
byte_is_alphanumeric(b) ==
    b \notin {" ", "\t", "\n", "xA0", "-", "\"", "'", "$", "&", "|", ";", ">", "<", "/",
              "*", "=", ".", "_", "~"}

\* String::push(byte as char): the bytes of the character U+00xx
pushed_char(b) == IF b = "xA0" THEN <<"xC2", "xA0">> ELSE <<b>>

\* str::is_char_boundary
is_char_boundary(i) ==
    i = 0 \/ i = Len(hl_line) \/ (i < Len(hl_line) /\ byte_at(i) # "xA0")

Min(S) == CHOOSE x \in S : \A y \in S : x <= y

\* lines 133-139 and 146-152: i after the quoted string that starts at start
quote_end(start, q) ==
    LET closing == {j \in (start + 1)..(Len(hl_line) - 1) : byte_at(j) = q}
    IN  IF closing = {} THEN Len(hl_line) ELSE Min(closing) + 1

\* lines 159-166: i after the variable that starts at start
var_end(start) ==
    LET stops == {j \in (start + 1)..(Len(hl_line) - 1) :
                      ~byte_is_alphanumeric(byte_at(j)) /\ byte_at(j) # "_"}
    IN  IF stops = {} THEN Len(hl_line) ELSE Min(stops)

is_operator(b) == b \in {"&", "|", ";", ">", "<"}

\* lines 173-191: i after the operator that starts at start
op_end(start) ==
    IF /\ start + 1 < Len(hl_line)
       /\ \/ (byte_at(start) = "&" /\ byte_at(start + 1) = "&")
          \/ (byte_at(start) = "|" /\ byte_at(start + 1) = "|")
    THEN start + 2
    ELSE start + 1

\* lines 178-199: the colour of an operator
op_color(op) ==
    IF Len(op) = 2 THEN "95"
    ELSE IF op = <<";">> THEN "33"
    ELSE IF op \in {<<"|">>, <<">">>, <<"<">>} THEN "1;37"
    ELSE ""

\* lines 205-211: i after the word that starts at start
word_end(start) ==
    LET stops == {j \in start..(Len(hl_line) - 1) :
                      \/ byte_is_whitespace(byte_at(j))
                      \/ byte_at(j) \in {"&", "|", ";", ">", "<", "\"", "'", "$"}}
    IN  IF stops = {} THEN Len(hl_line) ELSE Min(stops)

\* ShellHelper::new: the names found in the directories of PATH
commands_cache == {<<"l">>, <<"l", "s">>, <<"r", "m">>}

\* Path::exists
path_exists(p) == p \in {<<"l", "l">>, <<"/">>, <<"/", "t", "m", "p">>} \cup InitialDirs

\* lines 54-56
command_exists(cmd) == cmd \in commands_cache \/ path_exists(cmd)

\* lines 261-267
is_path_like(w) ==
    \/ starts_with(w, <<"/">>)
    \/ starts_with(w, <<".", "/">>)
    \/ starts_with(w, <<".", ".", "/">>)
    \/ starts_with(w, <<"~">>)
    \/ \A k \in 1..Len(w) :
           byte_is_alphanumeric(w[k]) \/ w[k] \in {"/", ".", "-", "_", "xA0"}

\* a classification that looks at the leading - before the position
word_class_option_first(word, cmdpos) ==
    IF starts_with(word, <<"-">>) THEN "OptionFlag"
    ELSE IF cmdpos
    THEN (IF command_exists(word) THEN "KnownCommand" ELSE "UnknownCommand")
    ELSE IF is_path_like(word) /\ path_exists(expand_tilde(word)) THEN "ExistingPath"
    ELSE "PlainWord"

\* lines 213-225
word_class(word, cmdpos) ==
    IF cmdpos
    THEN (IF command_exists(word) THEN "KnownCommand" ELSE "UnknownCommand")
    ELSE IF starts_with(word, <<"-">>) THEN "OptionFlag"
    ELSE IF is_path_like(word) /\ path_exists(expand_tilde(word)) THEN "ExistingPath"
    ELSE "PlainWord"

word_color(class) ==
    CASE class = "KnownCommand" -> "32"
      [] class = "UnknownCommand" -> "31"
      [] class = "OptionFlag" -> "33"
      [] class = "ExistingPath" -> "36"
      [] class = "PlainWord" -> ""

Span(text, cat, color) == [text |-> text, cat |-> cat, color |-> color]

SessionUnchanged ==
    UNCHANGED <<pc, ended, uid, cwd, dirs, exec_bit, environ, prev_dir, last_exit_code,
                history, history_file, stack, scn, submitted, snaps, printed, spawned,
                calls, rets, outcome>>

\* the loop is at byte i of a line without a dangerous pattern
Scanning == hl_pc = "scan" /\ ~is_dangerous(hl_line) /\ hl_i < Len(hl_line)

\* &line[start..end] is pushed as one span, or the slice panics
PushSlice(start, end, cat, color, cmdpos) ==
    /\ hl_i' = end
    /\ IF is_char_boundary(start) /\ is_char_boundary(end)
       THEN /\ hl_out' = Append(hl_out, Span(SubSeq(hl_line, start + 1, end), cat, color))
            /\ hl_cmd' = cmdpos
            /\ hl_pc' = "scan"
       ELSE /\ hl_out' = hl_out
            /\ hl_cmd' = hl_cmd
            /\ hl_pc' = "panic"
    /\ UNCHANGED hl_line
    /\ SessionUnchanged

\* lines 116-119
HlDangerous ==
    /\ hl_pc = "scan"
    /\ is_dangerous(hl_line)
    /\ hl_out' = <<Span(hl_line, "Dangerous", "5;41")>>
    /\ hl_pc' = "done"
    /\ UNCHANGED <<hl_line, hl_i, hl_cmd>>
    /\ SessionUnchanged

\* lines 125-129
HlWhitespace ==
    /\ Scanning
    /\ byte_is_whitespace(byte_at(hl_i))
    /\ hl_out' = Append(hl_out, Span(pushed_char(byte_at(hl_i)), "Whitespace", ""))
    /\ hl_i' = hl_i + 1
    /\ UNCHANGED <<hl_pc, hl_line, hl_cmd>>
    /\ SessionUnchanged

\* lines 130-142
HlDoubleQuoted ==
    /\ Scanning
    /\ byte_at(hl_i) = "\""
    /\ PushSlice(hl_i, quote_end(hl_i, "\""), "DoubleQuoted", "35", FALSE)

\* lines 143-155
HlSingleQuoted ==
    /\ Scanning
    /\ byte_at(hl_i) = "'"
    /\ PushSlice(hl_i, quote_end(hl_i, "'"), "SingleQuoted", "35", FALSE)

\* lines 156-169
HlVariable ==
    /\ Scanning
    /\ byte_at(hl_i) = "$"
    /\ PushSlice(hl_i, var_end(hl_i), "Variable", "94", FALSE)

\* lines 170-201
HlOperator ==
    /\ Scanning
    /\ is_operator(byte_at(hl_i))
    /\ PushSlice(hl_i, op_end(hl_i), "Operator",
                 op_color(SubSeq(hl_line, hl_i + 1, op_end(hl_i))), TRUE)

\* lines 202-228
HlWord ==
    /\ Scanning
    /\ ~byte_is_whitespace(byte_at(hl_i))
    /\ byte_at(hl_i) \notin {"\"", "'", "$"}
    /\ ~is_operator(byte_at(hl_i))
    /\ LET word == SubSeq(hl_line, hl_i + 1, word_end(hl_i)) IN
       PushSlice(hl_i, word_end(hl_i), word_class(word, hl_cmd),
                 word_color(word_class(word, hl_cmd)), FALSE)

\* line 230
HlReturn ==
    /\ hl_pc = "scan"
    /\ ~is_dangerous(hl_line)
    /\ hl_i >= Len(hl_line)
    /\ hl_pc' = "done"
    /\ UNCHANGED <<hl_line, hl_i, hl_cmd, hl_out>>
    /\ SessionUnchanged

\* one call of highlight on a line the user has typed
InitHL ==
    /\ SessionInit
    /\ scn = "hist"
    /\ history = << >>
    /\ hl_pc = "scan"
    /\ hl_line \in HlLines
    /\ hl_i = 0
    /\ hl_cmd = TRUE
    /\ hl_out = << >>

NextHL ==
    \/ HlDangerous
    \/ HlWhitespace
    \/ HlDoubleQuoted
    \/ HlSingleQuoted
    \/ HlVariable
    \/ HlOperator
    \/ HlWord
    \/ HlReturn

SpecHL == InitHL /\ [][NextHL]_vars

(***************************************************************************)
(* Properties.                                                             *)
(***************************************************************************)
NumRead == Len(submitted)

LastLine == submitted[NumRead]

\* the dispatch of the last line read has returned to the prompt
Dispatched == pc = "prompt" /\ NumRead > 0

\* line k is a successful cd <dir> submitted with no previous directory recorded,
\* and line k+1 is cd -
C1_Case(k) ==
    /\ k + 1 <= NumRead
    /\ submitted[k] \in {l_cd_a, l_cd_b}
    /\ submitted[k + 1] = l_cd_minus
    /\ snaps[k].prev = None
    /\ snaps[k + 1].prev # None

C1_A(k) == snaps[k].cwd

C1_B(k) == slice_from(submitted[k], 3)

\* C1 (as amended): starting in directory A with no previous directory recorded,
\* after a successful cd B followed by cd - the working directory is A and the
\* previous directory is B; a second consecutive cd - prints nothing and changes
\* the working directory back to B, with A as the previous directory.
C1_CdMinusToggles ==
    Dispatched =>
        \A k \in 1..NumRead :
            C1_Case(k) =>
                /\ (NumRead = k + 1 => current_dir = C1_A(k) /\ prev_dir = Some(C1_B(k)))
                /\ (NumRead = k + 2 /\ LastLine = l_cd_minus =>
                        /\ snaps[k + 2].cwd = C1_A(k)
                        /\ current_dir = C1_B(k)
                        /\ prev_dir = Some(C1_A(k))
                        /\ printed = << >>)

\* C1 (as stated): ... a second consecutive cd - reports "No previous directory"
\* and leaves the working directory unchanged (still A).
C1_SecondCdMinusFails ==
    Dispatched =>
        \A k \in 1..NumRead :
            C1_Case(k) =>
                /\ (NumRead = k + 1 => current_dir = C1_A(k))
                /\ (NumRead = k + 2 /\ LastLine = l_cd_minus =>
                        /\ printed = <<m_no_prev>>
                        /\ current_dir = C1_A(k))

\* cd /b from another directory, cd -, cd -: the session is in /b again
C1_Witness ==
    /\ Dispatched
    /\ NumRead = 3
    /\ C1_Case(1)
    /\ LastLine = l_cd_minus
    /\ C1_A(1) # C1_B(1)
    /\ current_dir = C1_B(1)

\* C2: however the session ends (end-of-input, interrupt during editing, or the
\* exit builtin), the history recorded during the session is in the history file
\* when the process has terminated.
C2_HistorySaved ==
    ended \in {"Eof", "Interrupted", "exit"} => history_file = history

\* a step in which readline returned a line
C3_Read == Len(submitted') = Len(submitted) + 1

C3_Line == submitted'[Len(submitted')]

\* C3 (as amended): for every line submitted at the prompt, history grows by
\* exactly one entry equal to the raw submitted line when the line is not empty,
\* does not begin with a whitespace character and differs from the most recent
\* entry (fewer than HistoryMaxLen entries being held); it grows by zero entries
\* otherwise: for an empty or whitespace-only line, for a line with leading
\* spaces, and for a line equal to the previous entry.
C3_HistoryRecording ==
    [][C3_Read /\ Len(history) < HistoryMaxLen =>
         history' = IF /\ C3_Line # << >>
                       /\ C3_Line[1] \notin {" ", "\t", "\n"}
                       /\ (history = << >> \/ history[Len(history)] # C3_Line)
                    THEN Append(history, C3_Line)
                    ELSE history]_vars

\* C3 (as stated): history grows by one entry, the raw line, whenever the line is
\* not blank, including lines with leading spaces and lines equal to the previous
\* entry, and by zero entries when it is blank.
C3_EveryNonBlankLineRecorded ==
    [][C3_Read =>
         history' = IF trim(C3_Line) # << >> THEN Append(history, C3_Line) ELSE history]_vars

\* a line with leading spaces and a repeated line were submitted and not recorded
C3_Witness ==
    /\ submitted = <<l_sp_ls_sp, l_ls, l_ls>>
    /\ history = <<l_ls>>
    /\ history_file = << >>

IsPrefix(a, b) == Len(a) <= Len(b) /\ SubSeq(b, 1, Len(a)) = a

\* the lines a top-level source passed to execute_command, and their statuses
Depth1Lines ==
    LET c == SelectSeq(calls, LAMBDA x : x.depth = 1) IN [i \in 1..Len(c) |-> c[i].line]

Depth1Codes ==
    LET r == SelectSeq(rets, LAMBDA x : x.depth = 1) IN [i \in 1..Len(r) |-> r[i].code]

C6_SourceLines == {src(f) : f \in DOMAIN Files} \cup {dot(f) : f \in DOMAIN Files}

C6_File == Files[CHOOSE f \in DOMAIN Files : LastLine \in {src(f), dot(f)}]

\* the non-blank lines of the file that do not begin with !
C6_Wanted ==
    SelectSeq(C6_File, LAMBDA l : \E i \in 1..Len(l) :
                  /\ l[i] \notin {" ", "\t", "\n"}
                  /\ l[i] # "!"
                  /\ \A j \in 1..(i - 1) : l[j] \in {" ", "\t", "\n"})

\* C6 (as amended): source F (or . F) dispatches the non-blank, non-!-prefixed
\* lines of F in file order, each at most once, with the same alias table and
\* session state, and stops at the first line whose dispatch fails with an I/O
\* error, which it returns (status 1 at top level), or ends the process; when no
\* line does, every such line is dispatched exactly once and the status returned
\* is that of the last line dispatched (0 when F has no eligible line); blank and
\* !-prefixed lines are never dispatched.
C6_SourceOrderAndStatus ==
    NumRead > 0 /\ LastLine \in C6_SourceLines =>
        /\ IsPrefix(Depth1Lines, C6_Wanted)
        /\ Len(Depth1Codes) \in {Len(Depth1Lines) - 1, Len(Depth1Lines)}
        /\ (Dispatched /\ outcome.kind = "source" =>
                /\ Depth1Lines = C6_Wanted
                /\ Len(Depth1Codes) = Len(C6_Wanted)
                /\ last_exit_code =
                       (IF C6_Wanted = << >> THEN 0 ELSE Depth1Codes[Len(Depth1Codes)]))
        /\ (Dispatched /\ outcome.kind # "source" =>
                /\ outcome.kind = "ioerr"
                /\ last_exit_code = 1
                /\ Len(Depth1Codes) = Len(Depth1Lines) - 1)
        /\ (Dispatched /\ outcome.kind = "source" /\ LastLine = src(f_3) =>
                /\ cwd = d_a
                /\ prev_dir = Some(snaps[NumRead].cwd))

\* C6 (as stated): source F dispatches every eligible line of F exactly once, in
\* file order, and returns the status of the last line dispatched (0 when F has
\* no eligible line).
C6_EveryLineDispatched ==
    Dispatched /\ LastLine \in C6_SourceLines =>
        /\ Depth1Lines = C6_Wanted
        /\ Len(Depth1Codes) = Len(C6_Wanted)
        /\ last_exit_code = (IF C6_Wanted = << >> THEN 0 ELSE Depth1Codes[Len(Depth1Codes)])

\* source f3 ran c1, cd /a and c3 and returned the status of c3
C6_Witness ==
    /\ Dispatched
    /\ LastLine = src(f_3)
    /\ outcome.kind = "source"
    /\ Depth1Lines = <<l_c1, l_cd_a, <<" ">> \o l_c3>>
    /\ Depth1Codes = <<2, 0, 2>>
    /\ last_exit_code = 2

\* C7: within one dispatch of a line the alias table is consulted once, on the
\* leading token of the submitted line: the line that leaves the alias stage is
\* the replacement text, a space, and the remaining tokens joined by spaces, and
\* the replacement's own leading token is not looked up again, also when it is a
\* key of the table (ll -> ls, where ls is a key) or the alias's own name
\* (ls -> ls -a); the child run for ll is ls, and for ls it is ls -a.
C7_SingleLevelAlias ==
    /\ AtStage("source") =>
           LET split == shlex_split(trim(Top.input)) IN
           split # None /\ split[1] # << >> /\ split[1][1] \in DOMAIN aliases =>
               Top.trimmed = aliases[split[1][1]] \o <<" ">> \o join(Tail(split[1]))
    /\ NumRead > 0 /\ calls = << >> /\ spawned # << >> =>
           /\ (LastLine = l_ll => spawned[1].cmd = l_ls)
           /\ (LastLine \in {l_ls, l_sp_ls_sp} => spawned[1].cmd = l_ls_a)

\* ll was submitted and the child run is ls, itself a key of the table
C7_Witness ==
    /\ Dispatched
    /\ LastLine = l_ll
    /\ spawned # << >>
    /\ spawned[1].cmd = l_ls
    /\ l_ls \in DOMAIN aliases

C8_BuiltinLines ==
    {l_cd, l_cd_a, l_cd_b, l_cd_x, l_cd_minus, l_cd_tilde, l_cdrecord, s_history, s_hsh_help}

C8_ExportLines == {l_export_ab, l_export_sp, l_export_home}

\* C8: after every loop iteration that dispatched a line, last_exit_code is the
\* result of that dispatch: 0 for every builtin (cd in all forms, failures
\* included, history, hsh-help) and for export, the child's exit code for
\* delegated execution (1 when the child has none), and 1 when the dispatch
\* failed with an I/O error (an unreadable sourced file, a failed spawn).
C8_ExitStatusTracking ==
    Dispatched =>
        /\ last_exit_code = outcome.code
        /\ (LastLine \in C8_BuiltinLines \cup C8_ExportLines =>
                last_exit_code = 0 /\ spawned = << >>)
        /\ (outcome.kind \in {"builtin", "export"} => last_exit_code = 0)
        /\ (outcome.kind = "exec" =>
                /\ spawned # << >>
                /\ LET st == spawned[Len(spawned)].status IN
                   last_exit_code = (IF st = None THEN 1 ELSE st[1]))
        /\ (outcome.kind = "ioerr" => last_exit_code = 1)
        /\ (LastLine = src(f_x) => outcome.kind = "ioerr")
        /\ (LastLine = l_c1 /\ spawned = << >> => outcome.kind = "ioerr")

\* cd into a directory that was removed: the failure is printed, the status is 0
C8_Witness ==
    /\ Dispatched
    /\ NumRead = 2
    /\ submitted[1] = l_rmdir_b
    /\ LastLine = l_cd_b
    /\ printed = <<m_cd_failed(d_b)>>
    /\ last_exit_code = 0

\* C9: the read loop never ends because a dispatched command failed: a step of
\* a dispatch continues the dispatch or returns to the prompt, and ends the
\* process only by an explicit exit.
C9_LoopOutlivesDispatch ==
    [][pc = "dispatch" => pc' \in {"dispatch", "prompt"} \/ ended' = "exit"]_vars

\* C10: every line that reaches the export stage beginning with "export " and
\* containing = sets the variable named by the text before the first = to the
\* text after it, spawns no child process and returns status 0, for every name,
\* an empty one included.
C10_ExportSetsAndReturnsZero ==
    [][AtStage("export") /\ starts_with(Top.trimmed, s_export)
         /\ (\E i \in 1..Len(Top.trimmed) : Top.trimmed[i] = "=") =>
            LET str == trim(slice_from(Top.trimmed, 7))
                eq == CHOOSE i \in 1..Len(str) : str[i] = "=" /\ \A j \in 1..(i - 1) : str[j] # "="
                name == trim(SubSeq(str, 1, eq - 1))
                value == trim(SubSeq(str, eq + 1, Len(str)))
            IN  /\ ended' = "no"
                /\ name \in DOMAIN environ'
                /\ environ'[name] = value
                /\ spawned' = spawned
                /\ IF Len(stack) = 1
                   THEN pc' = "prompt" /\ last_exit_code' = 0
                   ELSE stack'[Len(stack) - 1].last_code = 0]_vars

WordCats == {"KnownCommand", "UnknownCommand", "OptionFlag", "ExistingPath", "PlainWord"}

\* the last operator span before span k, or 0 for the start of the line
LastOperatorBefore(k) ==
    LET ops == {j \in 1..(k - 1) : hl_out[j].cat = "Operator"}
    IN  IF ops = {} THEN 0 ELSE CHOOSE j \in ops : \A m \in ops : m <= j

\* C4 (as amended): for every input line without a dangerous pattern, a Word span
\* that follows start-of-line or an operator span with nothing but whitespace
\* spans in between is classified as KnownCommand or UnknownCommand, never as
\* OptionFlag, ExistingPath or PlainWord (also when it begins with -); a Word
\* span with a quoted-string, variable or word span between the start or last
\* operator and itself is not at command position and is classified as
\* OptionFlag, ExistingPath or PlainWord.
C4_CommandPosition ==
    \A k \in 1..Len(hl_out) :
        hl_out[k].cat \in WordCats =>
            LET between == (LastOperatorBefore(k) + 1)..(k - 1) IN
            IF \A j \in between : hl_out[j].cat = "Whitespace"
            THEN hl_out[k].cat \in {"KnownCommand", "UnknownCommand"}
            ELSE hl_out[k].cat \in {"OptionFlag", "ExistingPath", "PlainWord"}

\* C4 (as stated): the first Word span that follows start-of-line or any operator
\* span is classified as KnownCommand or UnknownCommand, also when whitespace,
\* quoted-string or variable spans lie between the start or operator and it.
C4_FirstWordIsCommand ==
    \A k \in 1..Len(hl_out) :
        /\ hl_out[k].cat \in WordCats
        /\ \A j \in (LastOperatorBefore(k) + 1)..(k - 1) : hl_out[j].cat \notin WordCats
        => hl_out[k].cat \in {"KnownCommand", "UnknownCommand"}

\* -l after || is at command position
C4_Witness ==
    /\ hl_pc = "done"
    /\ hl_line = <<"l", " ", "&", "&", " ", "l", "l", " ", "|", "|", " ", "-", "l">>
    /\ Len(hl_out) = 9
    /\ hl_out[1].cat = "KnownCommand"
    /\ hl_out[5].cat = "KnownCommand"
    /\ hl_out[9] = Span(<<"-", "l">>, "UnknownCommand", "31")

RECURSIVE ConcatText(_)
ConcatText(spans) ==
    IF spans = << >> THEN << >> ELSE Head(spans).text \o ConcatText(Tail(spans))

\* C5: for every input line, the spans of one highlight pass are produced left
\* to right without overlap or gap (while the pass runs they are the line up to
\* i), and when the pass has ended the concatenation of their text is the
\* original line.
C5_SpanCoverage ==
    /\ hl_pc = "scan" => ConcatText(hl_out) = SubSeq(hl_line, 1, hl_i)
    /\ hl_pc \in {"done", "panic"} => ConcatText(hl_out) = hl_line

C11_Unreadable == {src(f_x), dot(f_x)}

\* C11: when the file named in source / . cannot be read, that dispatch returns
\* an I/O failure and dispatches nothing (no line, no child, no change of the
\* session); when the line is inside a sourced file, at any depth, the remaining
\* lines of every enclosing file are not dispatched and the failure reaches
\* main, which records status 1 and goes on to the next prompt.
C11_NestedSourceFailure ==
    /\ [][AtStage("source") /\ Top.trimmed \in C11_Unreadable =>
             /\ pc' = "prompt"
             /\ ended' = "no"
             /\ stack' = << >>
             /\ last_exit_code' = 1
             /\ calls' = calls
             /\ spawned' = spawned
             /\ UNCHANGED <<cwd, environ, prev_dir, history>>]_vars
    /\ [](Dispatched /\ calls # << >> /\ calls[Len(calls)].line \in C11_Unreadable =>
             /\ last_exit_code = 1
             /\ \A k \in 1..Len(spawned) : spawned[k].cmd \notin {l_c2, l_c3})

\* source fo reads fn, whose second line names an unreadable file: c2 of fn and
\* c3 of fo were not dispatched and the status is 1
C11_Witness ==
    /\ Dispatched
    /\ LastLine = src(f_o)
    /\ [i \in 1..Len(calls) |-> calls[i].line] = <<src(f_n), l_c1, src(f_x)>>
    /\ calls[3].depth = 2
    /\ Len(spawned) = 1
    /\ last_exit_code = 1

C12_Protected == {l_vi_etc, l_vi_q, l_nano_usr}

C12_Affirmative == {<<"y", "\n">>, <<"Y", "\n">>}

\* C12: the confirmation question is asked only for a line that matched no
\* builtin, whose leading command is vi, vim or nano, whose first argument begins
\* with /etc/ or /usr/bin/, in a process that is not privileged; the line passed
\* on is the line prefixed with "sudo " iff the answer is affirmative, and in
\* every other case (other command, other path, privileged process, negative or
\* any other answer, tokenization failure) it is the line unchanged (surrounding
\* whitespace aside).
C12_AutoSudo ==
    [][AtStage("sudo") =>
           LET t == Top.trimmed
               asked == Len(printed') > Len(printed)
               passed == stack'[Len(stack')].trimmed
           IN  /\ Len(stack') = Len(stack)
               /\ (asked => /\ t \in C12_Protected
                            /\ uid # 0
                            /\ printed'[Len(printed) + 1] = m_sudo)
               /\ IF asked /\ printed'[Len(printed')] \in C12_Affirmative
                  THEN passed = s_sudo \o trim(t)
                  ELSE passed = trim(t)]_vars

\* the text after the last space of a line
C13_TrailingToken(t) ==
    LET sp == {i \in 1..Len(t) : t[i] = " "}
        last == IF sp = {} THEN 0 ELSE CHOOSE i \in sp : \A j \in sp : j <= i
    IN  SubSeq(t, last + 1, Len(t))

\* C13: whenever the line that reaches extension rewriting has a trailing token
\* ending in .sh (also when other tokens precede it, as in bash x.sh), the file
\* that token names has an execute bit before the child is run if it exists, and
\* no file is created or moved; whenever the line ends in .hl, the line handed
\* to the child is the line prefixed with "hl run ".
C13_ExtensionRewriting ==
    AtStage("exec") =>
        /\ DOMAIN exec_bit = {f_xsh}
        /\ (ends_with(Top.trimmed, s_sh) =>
                LET file == C13_TrailingToken(Top.trimmed)
                IN  file \in DOMAIN exec_bit => exec_bit[file])
        /\ (ends_with(trim(Top.input), s_hl) => Top.trimmed = s_hl_run \o trim(Top.input))

C14_rm_rf == <<"r", "m", " ", "-", "r", "f", " ", "/">>

\* the line has the pattern at some offset
C14_Has(line, p) ==
    \E k \in 0..(Len(line) - Len(p)) : \A j \in 1..Len(p) : line[k + j] = p[j]

C14_Dangerous == C14_Has(hl_line, C14_rm_rf) \/ \E p \in dangerous_patterns : C14_Has(hl_line, p)

\* C14: every line that contains rm -rf / (or another of the fixed dangerous
\* substrings), at any offset and whatever surrounds it, is rendered as exactly
\* one warning span that is the whole line: the pass does not fail, and no
\* whitespace, quote, variable, operator or word span is produced for any part
\* of the line.
C14_DangerousOverride ==
    C14_Dangerous =>
        /\ hl_pc \in {"scan", "done"}
        /\ hl_i = 0
        /\ (hl_pc = "scan" => hl_out = << >>)
        /\ (hl_pc = "done" => hl_out = <<Span(hl_line, "Dangerous", "5;41")>>)

\* ls; rm -rf /tmp has the pattern in the middle and is one warning span
C14_Witness ==
    /\ hl_pc = "done"
    /\ hl_line = <<"l", "s", ";", " ">> \o C14_rm_rf \o <<"t", "m", "p">>
    /\ hl_out = <<Span(hl_line, "Dangerous", "5;41")>>

\* the successions of stages within one call of execute_command
C15_Order ==
    { <<"alias", "source">>, <<"source", "loop">>, <<"loop", "loop">>,
      <<"source", "builtin">>, <<"builtin", "sudo">>, <<"sudo", "export">>,
      <<"export", "ext">>, <<"ext", "exec">> }

\* the lines that the source stage, a builtin or an export with = handles
C15_Handled ==
    {src(f) : f \in DOMAIN Files \cup {f_x}} \cup {dot(f) : f \in DOMAIN Files \cup {f_x}}
    \cup {l_cd, l_cd_a, l_cd_b, l_cd_x, l_cd_minus, l_cd_tilde, l_cdrecord,
          s_exit, s_history, s_hsh_help}
    \cup {l_export_ab, trim(l_export_sp), l_export_eq, l_export_home}

\* one step of a dispatch: the stage order, and where a call may end
C15_Step(spawn_always) ==
    /\ (stack # << >> /\ Len(stack') = Len(stack) =>
              <<Top.stage, stack'[Len(stack')].stage>> \in C15_Order)
    /\ (Len(stack') > Len(stack) =>
              /\ Len(stack') = Len(stack) + 1
              /\ stack'[Len(stack')].stage = "alias"
              /\ (stack # << >> => Top.stage = "loop"))
    /\ (Len(spawned') > Len(spawned) =>
              /\ AtStage("exec")
              /\ trim(Top.input) \notin C15_Handled
              /\ Len(spawned') = Len(spawned) + 1)
    /\ (stack # << >> /\ Len(stack') < Len(stack) =>
              IF trim(Top.input) \in C15_Handled
              THEN /\ Top.stage \in {"source", "loop", "builtin", "export"}
                   /\ spawned' = spawned
              ELSE /\ Top.stage = "exec"
                   /\ \/ Len(spawned') = Len(spawned) + 1
                      \/ /\ ~spawn_always
                         /\ spawned' = spawned
                         /\ pc' = "prompt"
                         /\ last_exit_code' = 1)

\* C15 (as amended): within one dispatch the stages run in the order alias
\* expansion, source check, builtin interception, escalation check, export,
\* extension rewriting, delegated execution, none skipped before the one that
\* ends the dispatch and none revisited; a dispatch ends in exactly one stage;
\* delegated execution is reached iff the line was not handled by the source
\* stage, a builtin or an export with =, and there it runs one child process,
\* unless the spawn fails, in which case no child is run and the dispatch fails
\* with an I/O error (status 1 at top level).
C15_StageOrder == [][C15_Step(FALSE)]_vars

\* C15 (as stated): the stages run in the fixed order with no stage revisited,
\* each dispatch ends in exactly one terminal outcome, and a child process is
\* spawned for the line iff it was not handled by the source stage, a builtin,
\* or a well-formed export.
C15_ChildIffNotHandled == [][C15_Step(TRUE)]_vars

\* vi /etc/x went through every stage and its child was run under sudo
C15_Witness ==
    /\ Dispatched
    /\ LastLine = l_vi_etc
    /\ outcome.kind = "exec"
    /\ Len(spawned) = 1
    /\ spawned[1].cmd = s_sudo \o l_vi_etc

\* cd, cd <dir>, cd -, exit, history, hsh-help
C16_IsBuiltin(t) ==
    \/ t \in {s_cd, s_exit, s_history, s_hsh_help}
    \/ (Len(t) > 3 /\ SubSeq(t, 1, 3) = <<"c", "d", " ">>)

\* C16: builtin interception handles a line only when it is cd, cd <dir>, cd -,
\* exit, history or hsh-help; every other line, also one whose leading token
\* only begins with the letters cd (cdrecord x), is passed on untouched to the
\* stages that lead to delegated execution: nothing is printed and neither the
\* working directory nor prev_dir changes.
C16_BuiltinSet ==
    [][AtStage("builtin") =>
           IF C16_IsBuiltin(trim(Top.trimmed))
           THEN Len(stack') < Len(stack)
           ELSE /\ Len(stack') = Len(stack)
                /\ stack'[Len(stack')].stage = "sudo"
                /\ stack'[Len(stack')].trimmed = Top.trimmed
                /\ printed' = printed
                /\ UNCHANGED <<cwd, prev_dir, pc>>]_vars

\* C17: the classifier ends without failing on every input line, unterminated
\* quotes, a dangling operator at the end and a lone $ included: the scan index
\* never exceeds the line length, the pass never panics, and each iteration of
\* the scan consumes at least one byte.
C17_ClassifierTerminates ==
    /\ [](hl_pc # "panic" /\ hl_i <= Len(hl_line))
    /\ [][hl_pc = "scan" /\ hl_out' # hl_out => hl_i' > hl_i \/ hl_pc' = "done"]_vars

\* C18 (as amended): source recursion is unguarded: there is no depth limit and
\* no cycle check.  In the dispatch of source F, where F has an eligible line
\* source F, each time that line is reached dispatch is entered again for it,
\* one call deeper, and the dispatch never returns an Ok status: it ends only
\* when a line dispatched before the self-reference fails with an I/O error,
\* which is passed up to main (status 1), or ends the process.
C18_UnguardedRecursion ==
    /\ [](Dispatched /\ LastLine \in {src(f_s), src(f_t)} =>
              outcome.kind = "ioerr" /\ last_exit_code = 1)
    /\ [][/\ AtStage("loop")
          /\ Top.lines # << >>
          /\ Head(Top.lines) = src(f_s)
          /\ Len(stack) < MaxDepth
          => /\ Len(stack') = Len(stack) + 1
             /\ stack'[Len(stack')].input = src(f_s)
             /\ \A k \in 1..Len(stack) : stack'[k].input = stack[k].input]_vars

\* C18 (as stated): the dispatch of source F, where F has an eligible line
\* source F, never returns: main does not get back to the prompt.
C18_NeverReturns ==
    NumRead > 0 /\ LastLine \in {src(f_s), src(f_t)} => pc # "prompt"

\* three calls of source fs are active, one inside the other
C18_Witness ==
    /\ Len(stack) = 3
    /\ \A k \in 1..3 : stack[k].input = src(f_s)
    /\ Len(spawned) = 2

C19_CdLines == {l_cd, l_cd_a, l_cd_b, l_cd_x, l_cd_minus, l_cd_tilde}

\* C19: across any sequence of dispatched lines prev_dir changes only as the
\* result of a successful directory change, after which it is the working
\* directory that was left; a cd in any form (cd, cd <dir>, cd -) whose target
\* cannot be entered (a failure is printed) leaves the working directory and
\* prev_dir unchanged.  (Where the directory left has been removed, the
\* directory the process reports for it, /, is accepted.)
C19_PrevDirUpdate ==
    /\ [][prev_dir' # prev_dir =>
              /\ AtStage("builtin")
              /\ trim(Top.trimmed) \in C19_CdLines
              /\ printed' = printed
              /\ cwd' \in dirs
              /\ prev_dir' = <<IF cwd \in dirs THEN cwd ELSE d_root>>]_vars
    /\ [][/\ AtStage("builtin")
          /\ trim(Top.trimmed) \in C19_CdLines
          /\ printed' # printed
          => UNCHANGED <<cwd, prev_dir>>]_vars

\* main reads a source line; once == TRUE asks for exactly one new entry
C20_Step(once) ==
    /\ (pc = "dispatch" => history' = history)
    /\ (pc = "prompt" /\ pc' = "dispatch" /\ submitted'[Len(submitted')] \in C6_SourceLines =>
            LET line == submitted'[Len(submitted')]
            IN  IF ~once /\ history # << >> /\ history[Len(history)] = line
                THEN history' = history
                ELSE history' = Append(history, line))

\* the builtins of fh (cd /a, history) have acted on the session of main
C20_SharedSession ==
    Dispatched /\ LastLine = src(f_h) =>
        /\ outcome.kind = "source"
        /\ cwd = d_a
        /\ prev_dir = <<snaps[NumRead].cwd>>
        /\ history[Len(history)] = src(f_h)
        /\ printed = <<m_history(history)>>
        /\ \A k \in 1..Len(history) : history[k] \in Lines("nest")

\* C20 (as amended): lines dispatched from a sourced file are never appended to
\* the history; one top-level submission of source F adds at most one entry, the
\* source F line itself, and exactly one unless that line repeats the most
\* recent entry, however many lines F dispatches; the builtins in F act on the
\* shared session: a cd in F updates prev_dir, and history in F lists the
\* top-level entries.
C20_SourcedLinesNotInHistory == [][C20_Step(FALSE)]_vars /\ []C20_SharedSession

\* C20 (as stated): one top-level submission of source F adds exactly one entry
\* to the history, the source F line itself, and the lines F dispatches add none.
C20_ExactlyOneEntry == [][C20_Step(TRUE)]_vars

\* source fh was submitted after another line: cd /a and history ran from the
\* file, and the history holds the two submitted lines only
C20_Witness ==
    /\ Dispatched
    /\ submitted = <<l_c1, src(f_h)>>
    /\ history = <<l_c1, src(f_h)>>
    /\ printed = <<<<"history", <<src(f_h), l_c1>>>>>>
    /\ Len(calls) = 2
    /\ prev_dir = <<d_home>>

\* the last line read is empty or holds white space only
C21_Blank == NumRead > 0 /\ \A i \in 1..Len(LastLine) : LastLine[i] \in {" ", "\t", "\n"}

\* the dispatch of a blank line, up to its end
C21_Dispatch ==
    /\ [][pc = "prompt" /\ pc' = "dispatch"
              /\ (\A i \in 1..Len(submitted'[Len(submitted')]) :
                      submitted'[Len(submitted')][i] \in {" ", "\t", "\n"})
          => /\ Len(stack') = 1
             /\ stack'[1].input = submitted'[Len(submitted')]
             /\ stack'[1].stage = "alias"
             /\ history' = history]_vars
    /\ [](C21_Blank /\ pc = "dispatch" =>
              /\ Len(stack) = 1
              /\ Top.stage \in {"alias", "source", "builtin", "sudo", "export", "ext", "exec"}
              /\ (Top.stage # "alias" => Top.trimmed = << >>)
              /\ printed = << >>
              /\ calls = << >>
              /\ spawned = << >>
              /\ cwd = snaps[NumRead].cwd
              /\ prev_dir = snaps[NumRead].prev
              /\ last_exit_code = snaps[NumRead].code)

\* the child of a blank line: sh -c with an empty command, which exits 0
C21_EmptyChild == <<[cmd |-> << >>, status |-> <<0>>]>>

\* C21 (as amended): a submitted empty or whitespace-only line is not skipped by
\* the loop: it is dispatched, adds nothing to the history, matches no alias,
\* source, builtin, escalation or export stage, and is delegated to sh as an
\* empty command; last_exit_code is overwritten with the result of that: 0 when
\* the child was run, which clears the error indicator of the previous command,
\* and 1 when the spawn failed, which sets it.
C21_BlankLineDispatch ==
    /\ C21_Dispatch
    /\ [](C21_Blank /\ Dispatched =>
              \/ /\ outcome.kind = "exec"
                 /\ spawned = C21_EmptyChild
                 /\ last_exit_code = 0
              \/ /\ outcome.kind = "ioerr"
                 /\ spawned = << >>
                 /\ last_exit_code = 1)

\* C21 (as stated): a blank line is dispatched and delegated to the external
\* interpreter as an empty command, and pressing Enter on an empty line clears
\* the error indicator of the previous command: last_exit_code is 0 after it.
C21_EnterClearsError ==
    C21_Blank /\ Dispatched => spawned = C21_EmptyChild /\ last_exit_code = 0

\* ls ended with status 2, then an empty line was submitted: its child was run
\* and the status is 0 again
C21_Witness ==
    /\ Dispatched
    /\ submitted = <<l_ls, l_empty>>
    /\ snaps[2].code = 2
    /\ spawned = C21_EmptyChild
    /\ last_exit_code = 0
    /\ history = <<l_ls>>
=============================================================================
